---- MODULE Spec2Model ----
(***************************************************************************)
(* Model of template2helm's conversion engine (src/cmd/convert.go):        *)
(* objectToTemplate scans the template's object list once, rewrites        *)
(* DeploymentConfig and Route objects, records Service ports in            *)
(* mServiceObj, merges the template labels into every object and appends   *)
(* the serialized object to the bucket of its kind. The caller then runs   *)
(* paramsToValues over the files and the parameters and settles the        *)
(* chart's name, version and appVersion.                                   *)
(*                                                                         *)
(* A decoded object is an attribute tree, as unstructured.Unstructured     *)
(* holds it: every node is tagged with its Go dynamic type, so that the    *)
(* type assertions and the found/err results of the accessors can be       *)
(* computed as the code computes them.                                     *)
(***************************************************************************)
EXTENDS Integers, Sequences, FiniteSets, TLC

(***************************************************************************)
(* Attribute trees                                                         *)
(***************************************************************************)
Nil == [t |-> "nil", v |-> ""]
Str(s) == [t |-> "str", v |-> s]
Num(n) == [t |-> "num", v |-> n]
Map(f) == [t |-> "map", v |-> f]
List(l) == [t |-> "list", v |-> l]

EmptyFcn == [k \in {} |-> Nil]

\* f without key k (Go: delete(m, k)).
Without(f, k) == [x \in (DOMAIN f) \ {k} |-> f[x]]

\* f with key k bound to val (Go: m[k] = val).
With(f, k, val) == [x \in (DOMAIN f) \cup {k} |-> IF x = k THEN val ELSE f[x]]

\* The numerals the model's inputs use; fmt.Sprint prints them, the JSON
\* decoder reads them back.
PortNumbers == {8080, 8443, 9090}

\* fmt.Sprint of a decoded value.
Sprint(val) ==
    CASE val.t = "str" -> val.v
      [] val.t = "num" -> ToString(val.v)
      [] val.t = "nil" -> "<nil>"
      [] OTHER -> "composite"

\* Whether text s is a JSON number literal, and the number it denotes.
IsJSONNumber(s) == \E n \in PortNumbers : ToString(n) = s
ParseJSONNumber(s) == CHOOSE n \in PortNumbers : ToString(n) = s

(***************************************************************************)
(* k8s.io/apimachinery unstructured accessors, as convert.go calls them    *)
(***************************************************************************)
\* (val, found, err) of walking fields from val; a missing key is
\* found = FALSE without error, a non-map on the way is an error.
RECURSIVE NestedFieldNoCopy(_, _)
NestedFieldNoCopy(val, fields) ==
    IF fields = << >> THEN [val |-> val, found |-> TRUE, err |-> FALSE]
    ELSE IF val.t = "map"
         THEN IF Head(fields) \in DOMAIN val.v
              THEN NestedFieldNoCopy(val.v[Head(fields)], Tail(fields))
              ELSE [val |-> Nil, found |-> FALSE, err |-> FALSE]
         ELSE [val |-> Nil, found |-> FALSE, err |-> TRUE]

\* As NestedFieldNoCopy, and an error when the value found is not a map.
NestedMap(val, fields) ==
    LET r == NestedFieldNoCopy(val, fields)
    IN  IF (~r.found) \/ r.err THEN [val |-> Nil, found |-> r.found, err |-> r.err]
        ELSE IF r.val.t = "map" THEN r
        ELSE [val |-> Nil, found |-> FALSE, err |-> TRUE]

\* A map whose values are all strings, or not found.
NestedStringMap(val, fields) ==
    LET r == NestedMap(val, fields)
    IN  IF (~r.found) \/ r.err THEN r
        ELSE IF \A k \in DOMAIN r.val.v : r.val.v[k].t = "str" THEN r
        ELSE [val |-> Nil, found |-> FALSE, err |-> TRUE]

\* A string, or "" when absent or not a string.
NestedString(val, fields) ==
    LET r == NestedFieldNoCopy(val, fields)
    IN  IF r.found /\ (~r.err) /\ r.val.t = "str" THEN r.val.v ELSE ""

\* The map tree m with the field at path fields deleted; unchanged when an
\* intermediate field is missing or not a map.
RECURSIVE RemoveNestedField(_, _)
RemoveNestedField(m, fields) ==
    IF Len(fields) = 1 THEN Map(Without(m.v, Head(fields)))
    ELSE IF Head(fields) \in DOMAIN m.v /\ m.v[Head(fields)].t = "map"
         THEN Map(With(m.v, Head(fields),
                       RemoveNestedField(m.v[Head(fields)], Tail(fields))))
         ELSE m

\* The map tree m with value set at path fields, missing intermediate maps
\* created; unchanged (the library's error, which convert.go drops) when an
\* intermediate field is not a map.
RECURSIVE SetNestedField(_, _, _)
SetNestedField(m, value, fields) ==
    IF Len(fields) = 1 THEN Map(With(m.v, Head(fields), value))
    ELSE IF Head(fields) \in DOMAIN m.v
         THEN IF m.v[Head(fields)].t = "map"
              THEN Map(With(m.v, Head(fields),
                            SetNestedField(m.v[Head(fields)], value, Tail(fields))))
              ELSE m
         ELSE Map(With(m.v, Head(fields),
                       SetNestedField(Map(EmptyFcn), value, Tail(fields))))

GetKind(obj) == NestedString(obj, <<"kind">>)
GetAPIVersion(obj) == NestedString(obj, <<"apiVersion">>)
GetName(obj) == NestedString(obj, <<"metadata", "name">>)
SetKind(obj, kind) == SetNestedField(obj, Str(kind), <<"kind">>)
SetAPIVersion(obj, version) == SetNestedField(obj, Str(version), <<"apiVersion">>)

\* GetLabels: the labels as a Go map[string]string, nil (Nil) when absent
\* or not a string map.
GetLabels(obj) ==
    LET r == NestedStringMap(obj, <<"metadata", "labels">>)
    IN  IF r.found /\ ~r.err THEN r.val ELSE Nil

\* A variant of SetLabels that replaces the whole metadata by the labels.
SetLabelsAsMetadata(obj, labels) ==
    IF labels.t = "nil" THEN RemoveNestedField(obj, <<"metadata">>)
    ELSE SetNestedField(obj, Map([labels |-> labels]), <<"metadata">>)

\* SetLabels: a nil map removes the field, any other map replaces it.
SetLabels(obj, labels) ==
    IF labels.t = "nil" THEN RemoveNestedField(obj, <<"metadata", "labels">>)
    ELSE SetNestedField(obj, labels, <<"metadata", "labels">>)

\* json.Unmarshal into Unstructured: the decoder refuses an object without
\* a kind.
Decodes(raw) == raw.t = "map" /\ GetKind(raw) # ""

(***************************************************************************)
(* objectToTemplate: the kind rewrites                                     *)
(*                                                                         *)
(* A rewrite yields an outcome: st = "ok" with the rewritten object, or    *)
(* the way the process ends: "panic" (a failed type assertion) or "fatal"  *)
(* (checkErr: log.Fatalf, exit status 1).                                  *)
(***************************************************************************)
Ok(obj) == [st |-> "ok", obj |-> obj]
Panic == [st |-> "panic", obj |-> Nil]
Fatal == [st |-> "fatal", obj |-> Nil]

\* The fields case "DeploymentConfig" removes from spec.
LegacyFields == <<"strategy", "test", "triggers">>

\* A variant of RemoveLegacyFields that leaves the trigger list in place.
RemoveStrategyAndTest(spec) ==
    RemoveNestedField(RemoveNestedField(spec, <<"strategy">>), <<"test">>)

\* unstructured.RemoveNestedField(myInterface, f) for the three fields.
RemoveLegacyFields(spec) ==
    RemoveNestedField(
        RemoveNestedField(
            RemoveNestedField(spec, <<LegacyFields[1]>>),
            <<LegacyFields[2]>>),
        <<LegacyFields[3]>>)

\* A variant of MoveSelector that does not remove the flat selector first.
MoveSelectorKeepingFlat(spec, existingSelectorInterface) ==
    SetNestedField(spec, existingSelectorInterface, <<"selector", "matchLabels">>)

\* The selector update: the flat selector is removed, then set again under
\* selector.matchLabels.
MoveSelector(spec, existingSelectorInterface) ==
    SetNestedField(RemoveNestedField(spec, <<"selector">>),
                   existingSelectorInterface, <<"selector", "matchLabels">>)

\* A variant of ReconcileSelector without the early exit on an existing
\* selector.matchLabels.
ReconcileSelectorWithoutSkip(spec) ==
    LET existingSelectorInterface == NestedMap(spec, <<"selector">>)
    IN  IF existingSelectorInterface.err THEN Fatal
        ELSE IF existingSelectorInterface.found
             THEN Ok(MoveSelector(spec, existingSelectorInterface.val))
             ELSE Ok(spec)

\* Selector reconciliation on the spec left by RemoveLegacyFields.
ReconcileSelector(spec) ==
    LET existingSelectorMatchLabels == NestedMap(spec, <<"selector", "matchLabels">>)
        existingSelectorInterface == NestedMap(spec, <<"selector">>)
    IN  IF existingSelectorMatchLabels.err THEN Fatal
        ELSE IF existingSelectorMatchLabels.found THEN Ok(spec)
        ELSE IF existingSelectorInterface.err THEN Fatal
        ELSE IF existingSelectorInterface.found
             THEN Ok(MoveSelector(spec, existingSelectorInterface.val))
             ELSE Ok(spec)

\* case "DeploymentConfig".
RewriteDeploymentConfig(k8sR) ==
    LET renamed == SetKind(SetAPIVersion(k8sR, "apps/v1"), "Deployment")
        myInterface == NestedFieldNoCopy(renamed, <<"spec">>)
    IN  IF myInterface.err THEN [st |-> "error", obj |-> Nil]
        ELSE IF myInterface.val.t # "map" THEN Panic
        ELSE LET r == ReconcileSelector(RemoveLegacyFields(myInterface.val))
             IN  IF r.st = "ok"
                 THEN Ok(SetNestedField(renamed, r.obj, <<"spec">>))
                 ELSE r

\* One port item as an index entry: every field printed with fmt.Sprint.
PortEntry(value) == [kk \in DOMAIN value.v |-> Sprint(value.v[kk])]

\* The key under which the port item at position key (from 0) is stored.
PortKey(key, index) == key + Cardinality(DOMAIN index)

\* The range loop over the port list, from position key on: st = "panic"
\* when a port item is not a map.
RECURSIVE AddPorts(_, _, _)
AddPorts(index, ports, key) ==
    IF key >= Len(ports) THEN [st |-> "ok", index |-> index]
    ELSE IF ports[key + 1].t # "map" THEN [st |-> "panic", index |-> index]
    ELSE AddPorts(With(index, PortKey(key, index), PortEntry(ports[key + 1])),
                  ports, key + 1)

\* case "Service": the index after the object's ports are added.
IndexService(k8sR, index) ==
    LET getServicePorts == NestedFieldNoCopy(k8sR, <<"spec", "ports">>)
    IN  IF getServicePorts.err THEN [st |-> "fatal", index |-> index]
        ELSE IF getServicePorts.val.t # "list" THEN [st |-> "panic", index |-> index]
        ELSE AddPorts(index, getServicePorts.val.v, 0)

\* srvObjV[field] on a Go map[string]string: "" for a missing key.
EntryField(srvObjV, field) == IF field \in DOMAIN srvObjV THEN srvObjV[field] ELSE ""

\* getTargetPort == srvObjV["name"]: an interface value equals a string
\* only when it holds that string.
PortMatches(getTargetPort, srvObjV) ==
    getTargetPort.t = "str" /\ getTargetPort.v = EntryField(srvObjV, "name")

\* A variant of TargetPorts whose loop takes the first entry it visits,
\* whatever its name.
TargetPortsOfAnyEntry(getTargetPort, index) ==
    IF DOMAIN index = {} THEN {""}
    ELSE {EntryField(index[k], "targetPort") : k \in DOMAIN index}

\* The values TargetPort can have after the range loop over mServiceObj.
\* Go iterates a map in an order that differs from run to run, so the
\* entry that breaks the loop is any matching one.
TargetPorts(getTargetPort, index) ==
    LET matching == {k \in DOMAIN index : PortMatches(getTargetPort, index[k])}
    IN  IF matching = {} THEN {""}
        ELSE {EntryField(index[k], "targetPort") : k \in matching}

\* jsonIngressTemp decoded, for a TargetPort that is a JSON number. The
\* names are spliced into the text as they are; those of the model's inputs
\* hold no character that JSON escapes.
IngressObjData(name, serviceName, number) ==
    Map([apiVersion |-> Str("networking.k8s.io/v1"),
         kind |-> Str("Ingress"),
         metadata |-> Map([name |-> Str("ingress-" \o name),
                           annotations |-> Map(
                               "nginx.ingress.kubernetes.io/rewrite-target" :> Str("/"))]),
         spec |-> Map([rules |-> List(<<
             Map([http |-> Map([paths |-> List(<<
                 Map([path |-> Str("/"),
                      pathType |-> Str("Prefix"),
                      backend |-> Map([service |-> Map(
                          [name |-> Str(serviceName),
                           port |-> Map([number |-> Num(number)])])])])
             >>)])])
         >>)])])

\* mTargetService["name"]: spec.to's name printed with fmt.Sprint, "" when
\* spec.to has no name.
TargetServiceName(getTargetService) ==
    IF "name" \in DOMAIN getTargetService.v
    THEN Sprint(getTargetService.v["name"]) ELSE ""

\* case "Route", once the loop over mServiceObj has left TargetPort.
RewriteRoute(k8sR, TargetPort) ==
    LET getTargetService == NestedFieldNoCopy(k8sR, <<"spec", "to">>)
        getTargetPort == NestedFieldNoCopy(k8sR, <<"spec", "port", "targetPort">>)
    IN  IF getTargetService.err THEN Fatal
        ELSE IF getTargetService.val.t # "map" THEN Panic
        ELSE IF getTargetPort.err THEN Fatal
        ELSE IF ~IsJSONNumber(TargetPort) THEN Fatal
        ELSE Ok(IngressObjData(GetName(k8sR),
                               TargetServiceName(getTargetService.val),
                               ParseJSONNumber(TargetPort)))

\* A variant of MergeLabels in which the object's value wins on a shared key.
MergeLabelsObjectWins(k8sR, templateLabels) ==
    LET labels == GetLabels(k8sR)
    IN  IF labels.t = "nil" THEN SetLabels(k8sR, templateLabels)
        ELSE IF templateLabels.t = "nil" THEN SetLabels(k8sR, labels)
        ELSE SetLabels(k8sR,
                 Map([key \in (DOMAIN labels.v) \cup (DOMAIN templateLabels.v) |->
                         IF key \in DOMAIN labels.v
                         THEN labels.v[key] ELSE templateLabels.v[key]]))

\* The label merge that follows the switch.
MergeLabels(k8sR, templateLabels) ==
    LET labels == GetLabels(k8sR)
    IN  IF labels.t = "nil" THEN SetLabels(k8sR, templateLabels)
        ELSE IF templateLabels.t = "nil" THEN SetLabels(k8sR, labels)
        ELSE SetLabels(k8sR,
                 Map([key \in (DOMAIN labels.v) \cup (DOMAIN templateLabels.v) |->
                         IF key \in DOMAIN templateLabels.v
                         THEN templateLabels.v[key] ELSE labels.v[key]]))

(***************************************************************************)
(* The input Bundle: myTemplate.Objects and myTemplate.ObjectLabels        *)
(***************************************************************************)
\* At most this many objects in the template.
MaxObjects == 3

Meta(name, labels) ==
    IF labels.t = "nil" THEN Map([name |-> Str(name)])
    ELSE Map([name |-> Str(name), labels |-> labels])

\* An object without a spec, and one with it.
Bare(kind, apiVersion, name, labels) ==
    Map([kind |-> Str(kind), apiVersion |-> Str(apiVersion),
         metadata |-> Meta(name, labels)])
Obj(kind, apiVersion, name, labels, spec) ==
    Map(With(Bare(kind, apiVersion, name, labels).v, "spec", spec))

OwnLabels == Map([app |-> Str("own"), tier |-> Str("db")])
FlatSelector == Map([app |-> Str("x"), deploymentconfig |-> Str("y")])
MatchLabelsSelector == Map([matchLabels |-> Map([app |-> Str("x")])])

DCApi == "apps.openshift.io/v1"
DeploymentConfigs ==
    { Obj("DeploymentConfig", DCApi, "dc-flat", OwnLabels,
          Map([replicas |-> Num(3), strategy |-> Map([type |-> Str("Rolling")]),
               test |-> Str("false"), triggers |-> List(<< >>),
               selector |-> FlatSelector])),
      Obj("DeploymentConfig", DCApi, "dc-flat-only", Nil,
          Map([selector |-> FlatSelector])),
      Obj("DeploymentConfig", DCApi, "dc-ml-legacy", Nil,
          Map([replicas |-> Num(3), triggers |-> List(<< >>),
               selector |-> MatchLabelsSelector])),
      Obj("DeploymentConfig", DCApi, "dc-nosel", Nil,
          Map([replicas |-> Num(3), test |-> Str("false")])),
      Bare("DeploymentConfig", DCApi, "dc-nospec", Nil) }

Port(name, targetPort) == Map([name |-> Str(name), targetPort |-> targetPort])
Services ==
    { Obj("Service", "v1", "svc-a", Nil,
          Map([ports |-> List(<<Port("http", Str("8080"))>>)])),
      Obj("Service", "v1", "svc-b", OwnLabels,
          Map([ports |-> List(<<Port("http", Num(9090))>>)])),
      Obj("Service", "v1", "svc-c", Nil,
          Map([ports |-> List(<<Port("web", Num(8443)), Port("http", Str("8080"))>>)])),
      Obj("Service", "v1", "svc-d", Nil, Map([type |-> Str("ExternalName")])) }

RouteApi == "route.openshift.io/v1"
RouteSpec(service, targetPort) ==
    Map([to |-> Map([kind |-> Str("Service"), name |-> Str(service)]),
         port |-> Map([targetPort |-> targetPort])])
Routes ==
    { Obj("Route", RouteApi, "r-a", OwnLabels, RouteSpec("svc-a", Str("http"))),
      Obj("Route", RouteApi, "r-c", Nil, RouteSpec("svc-c", Str("web"))),
      Obj("Route", RouteApi, "r-noport", Nil,
          Map([to |-> Map([kind |-> Str("Service"), name |-> Str("svc-a")])])),
      Obj("Route", RouteApi, "r-noto", Nil,
          Map([port |-> Map([targetPort |-> Str("http")])])) }

Others ==
    { Obj("Deployment", "apps/v1", "dep", OwnLabels,
          Map([replicas |-> Num(3), selector |-> MatchLabelsSelector])),
      Bare("ConfigMap", "v1", "cm", Nil),
      Bare("configmap", "v1", "cm-lower", Nil),
      Map([metadata |-> Meta("nokind", Nil)]) }

RawObjects == DeploymentConfigs \cup Services \cup Routes \cup Others

\* myTemplate.ObjectLabels: nil when the template has no labels.
TemplateLabelChoices ==
    { Nil, Map([app |-> Str("tpl"), template |-> Str("t2h")]) }

Bundles == UNION { [1..n -> RawObjects] : n \in 1..MaxObjects }

(***************************************************************************)
(* State                                                                   *)
(***************************************************************************)
VARIABLES
    objects,         \* myTemplate.Objects, the raw objects in template order
    templateLabels,  \* myTemplate.ObjectLabels
    i,               \* position of the range loop over o (from 1)
    mServiceObj,     \* the Service port index: int key -> map[string]string
    m,               \* the buckets: kind -> chunks appended so far
    out,             \* k8sR as marshalled at the end of each iteration so far
    templates,       \* the caller's templates list
    pc,              \* "scan": in the loop; "returned": objectToTemplate returned
                     \* nil; "error": it returned an error; "aborted": the caller's
                     \* checkErr ended the run on that error; "panic", "fatal":
                     \* the process ended inside objectToTemplate; "chart",
                     \* "name", "version", "appVersion", "save": the caller's
                     \* steps after paramsToValues
    ObjectMeta,      \* myTemplate.ObjectMeta: Name and Annotations
    Parameters,      \* myTemplate.Parameters, in declaration order
    p,               \* position of paramsToValues' range loop over the parameters
    values,          \* the values map: lower-cased parameter name -> value
    myChart          \* the chart's Metadata, once the caller has built it

\* What the caller holds besides the object list and the templates.
chartVars == <<ObjectMeta, Parameters, p, values, myChart>>

vars == <<objects, templateLabels, i, mServiceObj, m, out, templates, pc,
          ObjectMeta, Parameters, p, values, myChart>>

separator == [t |-> "sep", v |-> "---\n"]

\* k8sR.MarshalJSON then yaml.JSONToYAML: the document of an object.
Serialize(k8sR) == [t |-> "yaml", v |-> k8sR]

\* A variant of AppendToBucket that puts the new document first.
PrependToBucket(buckets, kind, data) ==
    IF kind \notin DOMAIN buckets THEN With(buckets, kind, <<data>>)
    ELSE With(buckets, kind, (<<data>> \o <<separator>>) \o buckets[kind])

\* A variant of AppendToBucket that writes the separator before every
\* document, the first included.
AppendAfterSeparator(buckets, kind, data) ==
    IF kind \notin DOMAIN buckets THEN With(buckets, kind, <<separator, data>>)
    ELSE With(buckets, kind, (buckets[kind] \o <<separator>>) \o <<data>>)

\* The bucket map after data is appended under kind.
AppendToBucket(buckets, kind, data) ==
    IF kind \notin DOMAIN buckets THEN With(buckets, kind, <<data>>)
    ELSE With(buckets, kind, (buckets[kind] \o <<separator>>) \o <<data>>)

\* strings.ToLower on the kinds that reach the bucket map and on the
\* parameter names of the model's inputs.
ToLower(kind) ==
    CASE kind = "Deployment" -> "deployment"
      [] kind = "DeploymentConfig" -> "deploymentconfig"
      [] kind = "Service" -> "service"
      [] kind = "Route" -> "route"
      [] kind = "Ingress" -> "ingress"
      [] kind = "ConfigMap" -> "configmap"
      [] kind = "configmap" -> "configmap"
      [] kind = "FOO" -> "foo"
      [] kind = "foo" -> "foo"
      [] kind = "BAR" -> "bar"
      [] kind = "APP_VERSION" -> "app_version"

\* The chart.File built from one bucket.
TemplateFile(k, data) ==
    [Name |-> ("templates/" \o ToLower(k)) \o ".yaml", Data |-> data]

\* The orders in which a range loop can visit the keys of a Go map.
IterationOrders(S) ==
    {f \in [1..Cardinality(S) -> S] : \A a, b \in 1..Cardinality(S) : f[a] = f[b] => a = b}

Init ==
    /\ objects \in Bundles
    /\ templateLabels \in TemplateLabelChoices
    /\ i = 1
    /\ mServiceObj = EmptyFcn
    /\ m = EmptyFcn
    /\ out = << >>
    /\ templates = << >>
    /\ pc = "scan"
    /\ ObjectMeta = [Name |-> "", Annotations |-> EmptyFcn]
    /\ Parameters = << >>
    /\ p = 1
    /\ values = EmptyFcn
    /\ myChart = Nil

Scanning == pc = "scan" /\ i <= Len(objects)

\* The end of a loop iteration: label merge, serialization, bucket append.
Finish(k8sR, index) ==
    LET merged == MergeLabels(k8sR, templateLabels)
    IN  /\ m' = AppendToBucket(m, GetKind(merged), Serialize(merged))
        /\ out' = Append(out, merged)
        /\ mServiceObj' = index
        /\ i' = i + 1
        /\ UNCHANGED <<objects, templateLabels, templates, pc>>
        /\ UNCHANGED chartVars

\* The process ends (panic, log.Fatalf) or objectToTemplate returns an
\* error, inside the iteration.
Stop(st) ==
    /\ pc' = st
    /\ UNCHANGED <<objects, templateLabels, i, mServiceObj, m, out, templates>>
    /\ UNCHANGED chartVars

\* json.Unmarshal of the raw object fails: objectToTemplate returns the error.
ScanUndecodable ==
    /\ Scanning
    /\ ~Decodes(objects[i])
    /\ Stop("error")

ScanDeploymentConfig ==
    /\ Scanning
    /\ Decodes(objects[i])
    /\ GetKind(objects[i]) = "DeploymentConfig"
    /\ LET r == RewriteDeploymentConfig(objects[i])
       IN  IF r.st = "ok" THEN Finish(r.obj, mServiceObj) ELSE Stop(r.st)

ScanService ==
    /\ Scanning
    /\ Decodes(objects[i])
    /\ GetKind(objects[i]) = "Service"
    /\ LET r == IndexService(objects[i], mServiceObj)
       IN  IF r.st = "ok" THEN Finish(objects[i], r.index) ELSE Stop(r.st)

ScanRoute ==
    /\ Scanning
    /\ Decodes(objects[i])
    /\ GetKind(objects[i]) = "Route"
    /\ \E TargetPort \in
           TargetPorts(NestedFieldNoCopy(objects[i], <<"spec", "port", "targetPort">>).val,
                       mServiceObj) :
          LET r == RewriteRoute(objects[i], TargetPort)
          IN  IF r.st = "ok" THEN Finish(r.obj, mServiceObj) ELSE Stop(r.st)

\* No case of the switch matches.
ScanOther ==
    /\ Scanning
    /\ Decodes(objects[i])
    /\ GetKind(objects[i]) \notin {"DeploymentConfig", "Service", "Route"}
    /\ Finish(objects[i], mServiceObj)

\* After the loop: one chart.File per bucket, in map iteration order.
EmitTemplates ==
    /\ pc = "scan"
    /\ i > Len(objects)
    /\ \E order \in IterationOrders(DOMAIN m) :
          templates' = [n \in 1..Len(order) |-> TemplateFile(order[n], m[order[n]])]
    /\ pc' = "returned"
    /\ UNCHANGED <<objects, templateLabels, i, mServiceObj, m, out>>
    /\ UNCHANGED chartVars

\* The caller: checkErr(err, "... failed object to template conversion").
CheckErrConversion ==
    /\ pc = "error"
    /\ pc' = "aborted"
    /\ UNCHANGED <<objects, templateLabels, i, mServiceObj, m, out, templates>>
    /\ UNCHANGED chartVars

Next ==
    \/ ScanUndecodable
    \/ ScanDeploymentConfig
    \/ ScanService
    \/ ScanRoute
    \/ ScanOther
    \/ EmitTemplates
    \/ CheckErrConversion

Spec == Init /\ [][Next]_vars

(***************************************************************************)
(* paramsToValues and the chart metadata (convertCmd.RunE, after           *)
(* objectToTemplate has returned)                                          *)
(*                                                                         *)
(* Here the Data of a template file is text: the sequence of its pieces.   *)
(* A piece is one of the characters "$", "{" and "}", a parameter name, or *)
(* a stretch of other text; strings.ReplaceAll is computed on these        *)
(* sequences as it is on bytes. A name is one piece: the tokens delimit it *)
(* on both sides, so a token never matches part of a longer name.          *)
(***************************************************************************)
\* At most this many parameters in the template, and at most this many
\* fragments in the text of a bucket.
MaxParams == 2
MaxFragments == 2

\* fmt.Sprintf("${%s}", pm.Name) and fmt.Sprintf("${{%s}}", pm.Name).
ShortToken(Name) == <<"$", "{", Name, "}">>
BracedToken(Name) == <<"$", "{", "{", Name, "}", "}">>

\* fmt.Sprintf("{{ .Values.%s }}", name).
ValueReference(name) == <<"{", "{", " .Values.", name, " ", "}", "}">>

\* strings.ReplaceAll(s, old, new): the non-overlapping occurrences of old,
\* from the left.
RECURSIVE ReplaceAll(_, _, _)
ReplaceAll(s, old, new) ==
    IF Len(s) < Len(old) THEN s
    ELSE IF SubSeq(s, 1, Len(old)) = old
         THEN new \o ReplaceAll(SubSeq(s, Len(old) + 1, Len(s)), old, new)
         ELSE <<Head(s)>> \o ReplaceAll(Tail(s), old, new)

\* The file that takes the place of tf in the inner loop: both token forms
\* of pm replaced, the short form first.
SubstituteFile(tf, pm) ==
    LET name == ToLower(pm.Name)
        ns == ReplaceAll(tf.Data, ShortToken(pm.Name), ValueReference(name))
    IN  [Name |-> tf.Name,
         Data |-> ReplaceAll(ns, BracedToken(pm.Name), ValueReference(name))]

\* The value stored for pm: its default, or the placeholder.
ValueEntry(pm) ==
    IF pm.Value # "" THEN Str(pm.Value)
    ELSE Str("# TODO: must define a default value for ." \o ToLower(pm.Name))

\* One iteration of the loop over the parameters, on the files t and the
\* values v.
ConvertOne(t, v, pm) ==
    [t |-> [n \in 1..Len(t) |-> SubstituteFile(t[n], pm)],
     v |-> With(v, ToLower(pm.Name), ValueEntry(pm))]

\* A Go map[string]string read at key: "" for a missing key.
Lookup(map, key) == IF key \in DOMAIN map THEN map[key] ELSE ""

\* The --template flag of the run, and its base name without extension.
tplPath == "templates/app.yaml"
BaseName(path) == CASE path = "templates/app.yaml" -> "app"

\* The template's parameters: pairwise distinct names, declared with or
\* without a default.
Parameter(Name, Value) == [Name |-> Name, Value |-> Value]
ParameterChoices ==
    { Parameter("FOO", "bar"), Parameter("foo", "baz"), Parameter("foo", ""),
      Parameter("BAR", ""),
      Parameter("APP_VERSION", "1.2.3"), Parameter("APP_VERSION", "") }
ParameterLists ==
    { l \in UNION { [1..n -> ParameterChoices] : n \in 0..MaxParams } :
        \A a, b \in 1..Len(l) : l[a].Name = l[b].Name => a = b }

\* The template's metadata: a name and annotations, or neither.
ObjectMetaChoices ==
    { [Name |-> "demo",
       Annotations |-> [appversion |-> "2.0.0", description |-> "a demo"]],
      [Name |-> "demo", Annotations |-> [description |-> "a demo"]],
      [Name |-> "", Annotations |-> EmptyFcn] }

\* The texts of a bucket: up to MaxFragments fragments, each a token of a
\* parameter name or a stretch of text around one.
Fragments ==
    { ShortToken("FOO"), BracedToken("FOO"), ShortToken("foo"), BracedToken("BAR"),
      <<"$">>, <<"}">>, <<"replicas: ">> }
RECURSIVE Texts(_)
Texts(n) ==
    IF n = 0 THEN { << >> }
    ELSE Texts(n - 1) \cup { a \o b : a \in Texts(n - 1), b \in Fragments }
BucketTexts ==
    { ("Deployment" :> d) : d \in Texts(MaxFragments) \ { << >> } }
    \cup { ("Deployment" :> d) @@ ("Service" :> e) :
             d \in Texts(MaxFragments) \ { << >> },
             e \in { BracedToken("FOO"), <<"port: ", "8080">> } }

\* objectToTemplate has returned the files of the buckets m, in one of the
\* orders of the map; the caller's values map is empty. The scan's other
\* variables are not read from here on.
ChartInit ==
    /\ objects = << >>
    /\ templateLabels = Nil
    /\ i = 1
    /\ mServiceObj = EmptyFcn
    /\ out = << >>
    /\ m \in BucketTexts
    /\ \E order \in IterationOrders(DOMAIN m) :
          templates = [n \in 1..Len(order) |-> TemplateFile(order[n], m[order[n]])]
    /\ pc = "returned"
    /\ ObjectMeta \in ObjectMetaChoices
    /\ Parameters \in ParameterLists
    /\ p = 1
    /\ values = EmptyFcn
    /\ myChart = Nil

scanVars == <<objects, templateLabels, i, mServiceObj, m, out>>

\* paramsToValues: one iteration of the loop over the parameters.
ConvertParameter ==
    /\ pc = "returned"
    /\ p <= Len(Parameters)
    /\ LET r == ConvertOne(templates, values, Parameters[p])
       IN  /\ templates' = r.t
           /\ values' = r.v
    /\ p' = p + 1
    /\ UNCHANGED <<scanVars, pc, ObjectMeta, Parameters, myChart>>

\* paramsToValues returns nil, and the caller builds the chart.
BuildChart ==
    /\ pc = "returned"
    /\ p > Len(Parameters)
    /\ myChart' = [Name |-> ObjectMeta.Name,
                   APIVersion |-> "v2",
                   Version |-> Lookup(ObjectMeta.Annotations, "appversion"),
                   AppVersion |-> Lookup(ObjectMeta.Annotations, "appversion"),
                   Description |-> Lookup(ObjectMeta.Annotations, "description")]
    /\ pc' = "name"
    /\ UNCHANGED <<scanVars, templates, ObjectMeta, Parameters, p, values>>

\* if myChart.Metadata.Name == "".
DefaultName ==
    /\ pc = "name"
    /\ myChart' = IF myChart.Name = ""
                  THEN [myChart EXCEPT !.Name = BaseName(tplPath)]
                  ELSE myChart
    /\ pc' = "version"
    /\ UNCHANGED <<scanVars, templates, ObjectMeta, Parameters, p, values>>

\* The version taken when the annotation gives none.
VersionDefault(Values) ==
    IF "app_version" \in DOMAIN Values
    THEN Sprint(Values["app_version"])
    ELSE "v0.0.1"

\* if myChart.Metadata.Version == "".
DefaultVersion ==
    /\ pc = "version"
    /\ myChart' = IF myChart.Version = ""
                  THEN [myChart EXCEPT !.Version = VersionDefault(values)]
                  ELSE myChart
    /\ pc' = "appVersion"
    /\ UNCHANGED <<scanVars, templates, ObjectMeta, Parameters, p, values>>

\* if myChart.Metadata.AppVersion == "".
DefaultAppVersion ==
    /\ pc = "appVersion"
    /\ myChart' = IF myChart.AppVersion = ""
                  THEN [myChart EXCEPT !.AppVersion = VersionDefault(values)]
                  ELSE myChart
    /\ pc' = "save"
    /\ UNCHANGED <<scanVars, templates, ObjectMeta, Parameters, p, values>>

ChartNext ==
    \/ ConvertParameter
    \/ BuildChart
    \/ DefaultName
    \/ DefaultVersion
    \/ DefaultAppVersion

ChartSpec == ChartInit /\ [][ChartNext]_vars

(***************************************************************************)
(* Properties                                                              *)
(***************************************************************************)
\* Positions of the objects whose iteration has completed.
Done == 1..Len(out)

IsKind(obj, kind) == Decodes(obj) /\ GetKind(obj) = kind

\* The port items of a Service object, << >> without a port list.
PortItems(obj) ==
    LET r == NestedFieldNoCopy(obj, <<"spec", "ports">>)
    IN  IF r.found /\ r.val.t = "list" THEN r.val.v ELSE << >>

\* The Service has a port item with this name and targetPort.
HasPort(obj, name, targetPort) ==
    /\ IsKind(obj, "Service")
    /\ \E n \in 1..Len(PortItems(obj)) : PortItems(obj)[n] = Port(name, targetPort)

\* The Service has a port item with this name and another targetPort text.
HasOtherPort(obj, name, text) ==
    /\ IsKind(obj, "Service")
    /\ \E n \in 1..Len(PortItems(obj)) :
          /\ PortItems(obj)[n].t = "map"
          /\ EntryField(PortEntry(PortItems(obj)[n]), "name") = name
          /\ EntryField(PortEntry(PortItems(obj)[n]), "targetPort") # text

\* The Route references this service and this target port name.
RouteTo(obj, service, targetPort) ==
    /\ IsKind(obj, "Route")
    /\ NestedFieldNoCopy(obj, <<"spec", "to", "name">>).val = Str(service)
    /\ NestedFieldNoCopy(obj, <<"spec", "port", "targetPort">>).val = Str(targetPort)

\* The backend service of an Ingress built by the Route rewrite.
Backend(ingress) ==
    ingress.v.spec.v.rules.v[1].v.http.v.paths.v[1].v.backend.v.service.v
BackendIs(ingress, service, number) ==
    /\ GetKind(ingress) = "Ingress"
    /\ Backend(ingress).name = Str(service)
    /\ Backend(ingress).port.v.number = Num(number)

RouteMisses(obj, index) ==
    /\ IsKind(obj, "Route")
    /\ NestedMap(obj, <<"spec", "to">>).found
    /\ NestedFieldNoCopy(obj, <<"spec", "port", "targetPort">>).found
    /\ \A k \in DOMAIN index :
          ~PortMatches(NestedFieldNoCopy(obj, <<"spec", "port", "targetPort">>).val,
                       index[k])

\* C2 as claimed: a Route whose target port matches no entry of the Service
\* Port Index does not end the conversion: the loop goes on past it.
C2_MissIsNotFatal ==
    (i <= Len(objects) /\ RouteMisses(objects[i], mServiceObj)) => pc = "scan"

\* The least key among the index entries that match the target port.
FirstMatch(getTargetPort, index) ==
    CHOOSE k \in DOMAIN index :
        /\ PortMatches(getTargetPort, index[k])
        /\ \A j \in DOMAIN index : PortMatches(getTargetPort, index[j]) => k <= j

\* C3 as claimed: the Ingress built for a Route carries the targetPort of
\* the matching index entry that comes first in index order.
C3_FirstMatchWins ==
    \A b \in Done :
        (IsKind(objects[b], "Route") /\ b = i - 1)
        => LET port == NestedFieldNoCopy(objects[b], <<"spec", "port", "targetPort">>).val
           IN  Backend(out[b]).port.v.number =
                   Num(ParseJSONNumber(
                       EntryField(mServiceObj[FirstMatch(port, mServiceObj)], "targetPort")))

\* The number of port items of the Services among the first n objects.
RECURSIVE SeenPorts(_, _)
SeenPorts(objs, n) ==
    IF n = 0 THEN 0
    ELSE SeenPorts(objs, n - 1)
         + (IF IsKind(objs[n], "Service") THEN Len(PortItems(objs[n])) ELSE 0)

\* C4 as claimed: after every step the index holds one entry per port item
\* of the Services processed so far, no entry present before the step is
\* dropped or changed, and every key the step adds is greater than all keys
\* present before it.
C4_KeysNeverCollide ==
    [][/\ Cardinality(DOMAIN mServiceObj') = SeenPorts(objects', Len(out'))
       /\ \A k \in DOMAIN mServiceObj :
             k \in DOMAIN mServiceObj' /\ mServiceObj'[k] = mServiceObj[k]
       /\ \A k \in (DOMAIN mServiceObj') \ (DOMAIN mServiceObj) :
             \A j \in DOMAIN mServiceObj : k > j]_vars

\* A DeploymentConfig without spec, or a Route without spec.to or without
\* spec.port.targetPort.
LacksRequiredField(obj) ==
    \/ IsKind(obj, "DeploymentConfig") /\ ~NestedFieldNoCopy(obj, <<"spec">>).found
    \/ IsKind(obj, "Route") /\ ~NestedFieldNoCopy(obj, <<"spec", "to">>).found
    \/ /\ IsKind(obj, "Route")
       /\ ~NestedFieldNoCopy(obj, <<"spec", "port", "targetPort">>).found

\* C5 as claimed: at an object that lacks a required field the conversion
\* ends by objectToTemplate returning an error to its caller, whose
\* templates list is empty.
C5_StructuralErrorReturned ==
    (i <= Len(objects) /\ LacksRequiredField(objects[i]) /\ pc # "scan")
    => (pc \in {"error", "aborted"} /\ templates = << >>)

\* C6 as claimed: a Service without spec.ports does not end the conversion:
\* the loop goes on past it.
C6_ServiceWithoutPortsContinues ==
    (/\ i <= Len(objects)
     /\ IsKind(objects[i], "Service")
     /\ ~NestedFieldNoCopy(objects[i], <<"spec", "ports">>).found)
    => pc = "scan"

IsDeploymentConfig(obj) == IsKind(obj, "DeploymentConfig")

SpecOf(obj) == NestedFieldNoCopy(obj, <<"spec">>).val
SelectorOf(obj) == NestedFieldNoCopy(obj, <<"spec", "selector">>).val

\* spec.selector is a map of strings without a matchLabels key.
HasFlatSelector(obj) ==
    LET r == NestedStringMap(obj, <<"spec", "selector">>)
    IN  r.found /\ "matchLabels" \notin DOMAIN r.val.v

\* spec.selector.matchLabels is present.
HasMatchLabels(obj) == NestedMap(obj, <<"spec", "selector", "matchLabels">>).found

\* The keys of LegacyFields.
LegacyKeys == {LegacyFields[n] : n \in 1..Len(LegacyFields)}

\* C7: for a DeploymentConfig with a flat selector and no
\* selector.matchLabels, the output's spec.selector has the single key
\* matchLabels, bound to the key/value pairs of the input's flat selector.
C7_SelectorReconciled ==
    \A j \in Done :
        (IsDeploymentConfig(objects[j]) /\ HasFlatSelector(objects[j]))
        => /\ DOMAIN SelectorOf(out[j]).v = {"matchLabels"}
           /\ SelectorOf(out[j]).v["matchLabels"] = SelectorOf(objects[j])

\* C7 witness: a DeploymentConfig with a non-empty flat selector has been
\* rewritten.
C7_Witness ==
    \E j \in Done :
        /\ IsDeploymentConfig(objects[j])
        /\ HasFlatSelector(objects[j])
        /\ DOMAIN SelectorOf(objects[j]).v # {}

\* C8 as claimed: for a DeploymentConfig that has spec.selector.matchLabels
\* the output spec equals the input spec.
C8_SpecUnchanged ==
    \A j \in Done :
        (IsDeploymentConfig(objects[j]) /\ HasMatchLabels(objects[j]))
        => SpecOf(out[j]) = SpecOf(objects[j])

\* C8 amended: for a DeploymentConfig that has spec.selector.matchLabels
\* the output spec is the input spec without strategy, test and triggers:
\* the selector and every other key keep their values, no key is added;
\* kind and apiVersion are rewritten and the name is kept.
C8_SpecUnchangedButLegacy ==
    \A j \in Done :
        (IsDeploymentConfig(objects[j]) /\ HasMatchLabels(objects[j]))
        => /\ DOMAIN SpecOf(out[j]).v = (DOMAIN SpecOf(objects[j]).v) \ LegacyKeys
           /\ \A key \in DOMAIN SpecOf(out[j]).v :
                 SpecOf(out[j]).v[key] = SpecOf(objects[j]).v[key]
           /\ GetKind(out[j]) = "Deployment"
           /\ GetAPIVersion(out[j]) = "apps/v1"
           /\ GetName(out[j]) = GetName(objects[j])

\* C8 witness: a DeploymentConfig with selector.matchLabels and a legacy
\* field has been rewritten.
C8_Witness ==
    \E j \in Done :
        /\ IsDeploymentConfig(objects[j])
        /\ HasMatchLabels(objects[j])
        /\ (DOMAIN SpecOf(objects[j]).v) \cap LegacyKeys # {}

\* C9: a DeploymentConfig that has a spec never ends the conversion, and
\* its output has kind Deployment, apiVersion apps/v1, a spec without
\* strategy, test and triggers, no spec key the input lacks, and every other
\* input spec key but selector with its input value.
C9_DeploymentConfigRewritten ==
    /\ (/\ i <= Len(objects)
        /\ IsDeploymentConfig(objects[i])
        /\ NestedMap(objects[i], <<"spec">>).found) => pc = "scan"
    /\ \A j \in Done :
          IsDeploymentConfig(objects[j])
          => /\ GetKind(out[j]) = "Deployment"
             /\ GetAPIVersion(out[j]) = "apps/v1"
             /\ (DOMAIN SpecOf(out[j]).v) \cap LegacyKeys = {}
             /\ DOMAIN SpecOf(out[j]).v \subseteq DOMAIN SpecOf(objects[j]).v
             /\ \A key \in (DOMAIN SpecOf(objects[j]).v) \ (LegacyKeys \cup {"selector"}) :
                   /\ key \in DOMAIN SpecOf(out[j]).v
                   /\ SpecOf(out[j]).v[key] = SpecOf(objects[j]).v[key]

\* C9 witness: a DeploymentConfig that has one of the three fields and
\* lacks another has been rewritten.
C9_Witness ==
    \E j \in Done :
        /\ IsDeploymentConfig(objects[j])
        /\ (DOMAIN SpecOf(objects[j]).v) \cap LegacyKeys # {}
        /\ ~(LegacyKeys \subseteq DOMAIN SpecOf(objects[j]).v)
        /\ "replicas" \in DOMAIN SpecOf(out[j]).v

\* A label mapping as a function, empty for nil.
LabelMap(labels) == IF labels.t = "nil" THEN EmptyFcn ELSE labels.v

\* result is own overridden key by key by tpl.
Overrides(result, own, tpl) ==
    /\ DOMAIN result = (DOMAIN own) \cup (DOMAIN tpl)
    /\ \A key \in DOMAIN tpl : result[key] = tpl[key]
    /\ \A key \in (DOMAIN own) \ (DOMAIN tpl) : result[key] = own[key]

MergedLabelsHold(result, obj, tpl) ==
    IF IsKind(obj, "Route")
    THEN LabelMap(GetLabels(result)) = LabelMap(tpl)
    ELSE Overrides(LabelMap(GetLabels(result)), LabelMap(GetLabels(obj)), LabelMap(tpl))

PassesThrough(obj) ==
    Decodes(obj) /\ GetKind(obj) \notin {"DeploymentConfig", "Route"}

\* The attribute tree without its label mapping.
Unlabelled(obj) == RemoveNestedField(obj, <<"metadata", "labels">>)

Documents(bucket) == SelectSeq(bucket, LAMBDA chunk : chunk # separator)

\* The kind under which the switch leaves an object of the Bundle.
PostRewriteKind(obj) ==
    CASE GetKind(obj) = "DeploymentConfig" -> "Deployment"
      [] GetKind(obj) = "Route" -> "Ingress"
      [] OTHER -> GetKind(obj)

\* The documents of the objects among the first n of the Bundle whose
\* post-rewrite kind is kind, in Bundle order.
RECURSIVE DocumentsOfKind(_, _)
DocumentsOfKind(kind, n) ==
    IF n = 0 THEN << >>
    ELSE IF PostRewriteKind(objects[n]) = kind
         THEN Append(DocumentsOfKind(kind, n - 1), Serialize(out[n]))
         ELSE DocumentsOfKind(kind, n - 1)

\* C12: at every point of the scan there is one bucket per post-rewrite
\* kind of the objects processed so far and no other; the bucket of a kind
\* holds the documents of exactly the objects of that post-rewrite kind, each
\* once, in the order of the Bundle (a rewritten DeploymentConfig in the
\* Deployment bucket); and the files objectToTemplate returns are these
\* buckets, one file each.
C12_BucketsInOrder ==
    /\ DOMAIN m = {PostRewriteKind(objects[j]) : j \in Done}
    /\ \A j \in Done : GetKind(out[j]) = PostRewriteKind(objects[j])
    /\ \A kind \in DOMAIN m : Documents(m[kind]) = DocumentsOfKind(kind, Len(out))
    /\ pc = "returned"
       => /\ Len(templates) = Cardinality(DOMAIN m)
          /\ \A kind \in DOMAIN m :
                \E n \in 1..Len(templates) : templates[n] = TemplateFile(kind, m[kind])

\* C12 witness: objectToTemplate has returned with more than one bucket,
\* and the Deployment bucket holds the document of a native Deployment
\* after that of a rewritten DeploymentConfig, the two being different.
C12_Witness ==
    /\ pc = "returned"
    /\ Cardinality(DOMAIN m) > 1
    /\ \E a, b \in Done :
          /\ a < b
          /\ IsKind(objects[a], "DeploymentConfig")
          /\ IsKind(objects[b], "Deployment")
          /\ Len(Documents(m["Deployment"])) = 2
          /\ Documents(m["Deployment"])[1] = Serialize(out[a])
          /\ Documents(m["Deployment"])[2] = Serialize(out[b])
          /\ out[a] # out[b]

\* The number of objects among the first n of the Bundle whose post-rewrite
\* kind is kind.
RECURSIVE CountOfKind(_, _)
CountOfKind(kind, n) ==
    IF n = 0 THEN 0
    ELSE CountOfKind(kind, n - 1) + (IF PostRewriteKind(objects[n]) = kind THEN 1 ELSE 0)

\* The positions of a bucket that hold the separator.
SeparatorPositions(bucket) == {n \in 1..Len(bucket) : bucket[n] = separator}

\* C13: the separator is the 4 bytes "---\n", and a bucket that holds the
\* documents of n objects holds n - 1 separators: one between every two
\* consecutive documents (the even positions of the 2n - 1 chunks), none
\* before the first document and none after the last.
C13_SeparatorsBetween ==
    /\ Len(separator.v) = 4
    /\ separator.v = "---\n"
    /\ \A kind \in DOMAIN m :
          LET n == CountOfKind(kind, Len(out))
          IN  /\ n >= 1
              /\ Len(m[kind]) = 2 * n - 1
              /\ Cardinality(SeparatorPositions(m[kind])) = n - 1
              /\ SeparatorPositions(m[kind]) = {2 * k : k \in 1..(n - 1)}
              /\ m[kind][1] # separator
              /\ m[kind][Len(m[kind])] # separator

\* C13 witness: a bucket of two documents of different objects, with the
\* separator between them, stands beside a bucket of one document.
C13_Witness ==
    \E a, b \in DOMAIN m :
        /\ Len(Documents(m[a])) = 2
        /\ m[a] = <<Documents(m[a])[1], separator, Documents(m[a])[2]>>
        /\ Documents(m[a])[1] # Documents(m[a])[2]
        /\ Len(m[b]) = 1

\* The document is that of the Route object obj as the Bundle holds it:
\* kind Route, its name and its spec.
IsDocumentOfRoute(doc, obj) ==
    /\ GetKind(doc.v) = "Route"
    /\ GetName(doc.v) = GetName(obj)
    /\ NestedFieldNoCopy(doc.v, <<"spec">>) = NestedFieldNoCopy(obj, <<"spec">>)

\* C17 as claimed: for every Route of the Bundle that has been processed,
\* the buckets hold the original Route object and, besides it, the Ingress
\* derived from it.
C17_RouteKept ==
    \A j \in Done :
        IsKind(objects[j], "Route")
        => /\ "Route" \in DOMAIN m
           /\ \E n \in 1..Len(m["Route"]) : IsDocumentOfRoute(m["Route"][n], objects[j])
           /\ "Ingress" \in DOMAIN m
           /\ \E n \in 1..Len(m["Ingress"]) : m["Ingress"][n] = Serialize(out[j])

\* The index entries the port items of the Services among the first n
\* objects would make.
PrecedingPortEntries(n) ==
    UNION { {PortEntry(PortItems(objects[a])[k]) : k \in 1..Len(PortItems(objects[a]))} :
            a \in {b \in 1..n : IsKind(objects[b], "Service")} }

\* C19 as claimed: when the loop stands at a Route, the entries of the
\* Service Port Index are exactly the port entries of the Services that
\* precede the Route in the Bundle.
C19_LookupSeesPrecedingPorts ==
    (pc = "scan" /\ i <= Len(objects) /\ IsKind(objects[i], "Route"))
    => {mServiceObj[k] : k \in DOMAIN mServiceObj} = PrecedingPortEntries(i - 1)

\* C20 as claimed: the backend port of the Ingress built for a Route is the
\* targetPort of a port item, named as the Route's spec.port.targetPort, of
\* a Service of the Bundle whose name is the Route's spec.to.name.
C20_PortOfReferencedService ==
    \A j \in Done :
        IsKind(objects[j], "Route")
        => \E a \in 1..Len(objects) :
              /\ IsKind(objects[a], "Service")
              /\ Str(GetName(objects[a])) = NestedFieldNoCopy(objects[j], <<"spec", "to", "name">>).val
              /\ \E n \in 1..Len(PortItems(objects[a])) :
                    LET entry == PortEntry(PortItems(objects[a])[n])
                    IN  /\ PortMatches(NestedFieldNoCopy(objects[j],
                                           <<"spec", "port", "targetPort">>).val, entry)
                        /\ EntryField(entry, "targetPort")
                               = ToString(Backend(out[j]).port.v.number.v)

\* paramsToValues has returned.
Converted == pc \in {"name", "version", "appVersion", "save"}

\* The files as objectToTemplate returned them, in the order of templates.
ReturnedFiles ==
    [n \in 1..Len(templates) |->
        CHOOSE tf \in {TemplateFile(kind, m[kind]) : kind \in DOMAIN m} :
            tf.Name = templates[n].Name]

\* The declared parameter names.
DeclaredNames == {Parameters[n].Name : n \in 1..Len(Parameters)}

\* Whether token occurs in text, and whether it starts text.
Occurs(text, token) ==
    \E k \in 1..(Len(text) - Len(token) + 1) : SubSeq(text, k, k + Len(token) - 1) = token
StartsWith(text, token) ==
    Len(text) >= Len(token) /\ SubSeq(text, 1, Len(token)) = token

\* text with every token of a declared name, of either form, replaced by
\* the value reference of the lower-cased name, and all else as it was.
RECURSIVE TokensReplaced(_)
TokensReplaced(text) ==
    IF text = << >> THEN << >>
    ELSE IF \E N \in DeclaredNames : StartsWith(text, ShortToken(N))
    THEN LET N == CHOOSE N \in DeclaredNames : StartsWith(text, ShortToken(N))
         IN  ValueReference(ToLower(N))
                 \o TokensReplaced(SubSeq(text, Len(ShortToken(N)) + 1, Len(text)))
    ELSE IF \E N \in DeclaredNames : StartsWith(text, BracedToken(N))
    THEN LET N == CHOOSE N \in DeclaredNames : StartsWith(text, BracedToken(N))
         IN  ValueReference(ToLower(N))
                 \o TokensReplaced(SubSeq(text, Len(BracedToken(N)) + 1, Len(text)))
    ELSE <<Head(text)>> \o TokensReplaced(Tail(text))

\* After paramsToValues no file holds a token of a declared name, and the
\* text of every file is the returned text with each token of a declared
\* name replaced by its value reference, the other tokens untouched.
TokensSubstituted ==
    Converted
    => /\ \A n \in 1..Len(templates) : \A N \in DeclaredNames :
             /\ ~Occurs(templates[n].Data, ShortToken(N))
             /\ ~Occurs(templates[n].Data, BracedToken(N))
       /\ \A n \in 1..Len(templates) :
             /\ templates[n].Name = ReturnedFiles[n].Name
             /\ templates[n].Data = TokensReplaced(ReturnedFiles[n].Data)

\* C14 as claimed: after paramsToValues no bucket holds `${NAME}` or
\* `${{NAME}}` for a declared NAME, each former occurrence is the value
\* reference of the lower-cased name, the tokens of other names are
\* untouched, and every parameter declared with a default has the values
\* entry of its lower-cased name bound to that default.
C14_SubstitutionComplete ==
    /\ TokensSubstituted
    /\ Converted
       => \A n \in 1..Len(Parameters) :
             Parameters[n].Value # ""
             => /\ ToLower(Parameters[n].Name) \in DOMAIN values
                /\ values[ToLower(Parameters[n].Name)] = Str(Parameters[n].Value)

\* The placeholder of a parameter name.
Placeholder(Name) == "# TODO: must define a default value for ." \o ToLower(Name)

\* C15 as claimed: after paramsToValues every declared parameter has a
\* values entry under its lower-cased name, a parameter declared without a
\* default has the non-empty placeholder there, and no value is the empty
\* string.
C15_PlaceholderForMissingDefault ==
    Converted
    => /\ \A n \in 1..Len(Parameters) :
             /\ ToLower(Parameters[n].Name) \in DOMAIN values
             /\ Parameters[n].Value = ""
                => /\ values[ToLower(Parameters[n].Name)] = Str(Placeholder(Parameters[n].Name))
                   /\ Placeholder(Parameters[n].Name) # ""
       /\ \A key \in DOMAIN values : values[key] # Str("")

\* paramsToValues on the parameter list params, from the files t and the
\* values v.
RECURSIVE ParamsToValues(_, _, _)
ParamsToValues(params, t, v) ==
    IF params = << >> THEN [t |-> t, v |-> v]
    ELSE LET r == ConvertOne(t, v, Head(params))
         IN  ParamsToValues(Tail(params), r.t, r.v)

\* The parameter list in every order.
Reorderings(params) ==
    { [n \in 1..Len(params) |-> params[order[n]]] :
        order \in IterationOrders(1..Len(params)) }

\* C16 as claimed: the files and the values map that paramsToValues leaves
\* are those it leaves for every reordering of the parameter list (whose
\* names are pairwise distinct), and the values map has one entry per
\* declared parameter, bound to that parameter's default or placeholder.
C16_OrderInvariant ==
    Converted
    => /\ \A params \in Reorderings(Parameters) :
             ParamsToValues(params, ReturnedFiles, EmptyFcn) = [t |-> templates, v |-> values]
       /\ Cardinality(DOMAIN values) = Len(Parameters)
       /\ \A n \in 1..Len(Parameters) :
             /\ ToLower(Parameters[n].Name) \in DOMAIN values
             /\ values[ToLower(Parameters[n].Name)] = ValueEntry(Parameters[n])

\* The version the README's three directives select.
FirstDirective ==
    IF Lookup(ObjectMeta.Annotations, "appversion") # ""
    THEN Lookup(ObjectMeta.Annotations, "appversion")
    ELSE IF \E n \in 1..Len(Parameters) :
               Parameters[n].Name = "APP_VERSION" /\ Parameters[n].Value # ""
    THEN (CHOOSE pm \in {Parameters[n] : n \in 1..Len(Parameters)} :
              pm.Name = "APP_VERSION").Value
    ELSE "v0.0.1"

\* C18 as claimed: the chart's version and appVersion are both the
\* annotation appversion if the template has it, else the value of the
\* parameter APP_VERSION if it has one, else "v0.0.1".
C18_VersionSelection ==
    pc = "save"
    => /\ myChart.Version = FirstDirective
       /\ myChart.AppVersion = FirstDirective

\* C21 as claimed: the files objectToTemplate returns have pairwise
\* distinct names, and two different buckets never have the same file name.
C21_FileNamesUnique ==
    /\ \A a, b \in DOMAIN m :
          TemplateFile(a, m[a]).Name = TemplateFile(b, m[b]).Name => a = b
    /\ pc = "returned"
       => \A a, b \in 1..Len(templates) :
             templates[a].Name = templates[b].Name => a = b

====
